---- MODULE Spec2Model ----
(***************************************************************************)
(* Model of incus-guestapi: the envelope decoder Event.UnmarshalJSON        *)
(* (package incus), the endpoint and the read loop of                      *)
(* GuestClient.ListenForEvents (package guest) with the goroutines it      *)
(* spawns for the caller's callback, and the client's one-shot calls.      *)
(***************************************************************************)
EXTENDS Integers, Sequences, FiniteSets, TLC

\* Largest number of messages the host delivers in one subscription.
MaxMsgs == 2

(***************************************************************************)
(* JSON values on the wire.  A field of a JSON object is absent, the       *)
(* literal null, a string, or a value of another JSON kind ("bad": a       *)
(* number, an array, ... where a string or an object is expected).         *)
(***************************************************************************)
Absent == [tag |-> "absent", s |-> ""]
Null == [tag |-> "null", s |-> ""]
Bad == [tag |-> "bad", s |-> ""]
Str(s) == [tag |-> "str", s |-> s]

\* The nested "config" object of a device metadata record.
DevCfgJSON(tag, type, path) == [tag |-> tag, type |-> type, path |-> path]
NoDevCfg == DevCfgJSON("absent", Absent, Absent)

\* The "metadata" value of an envelope: every key either payload struct reads.
MetaJSON(tag, key, old, value, name, action, config) ==
  [tag |-> tag, key |-> key, old_value |-> old, value |-> value,
   name |-> name, action |-> action, config |-> config]
MetaOf(tag) == MetaJSON(tag, Absent, Absent, Absent, Absent, Absent, NoDevCfg)
ConfigMeta(key, old, value) ==
  MetaJSON("obj", key, old, value, Absent, Absent, NoDevCfg)
DeviceMeta(name, action, config) ==
  MetaJSON("obj", Absent, Absent, Absent, name, action, config)

\* One wire message: shape "object" (a JSON object), "null" (the literal
\* null) or "invalid" (a syntax error, or a JSON value that is no object).
WireMsg(shape, timestamp, type, metadata) ==
  [shape |-> shape, timestamp |-> timestamp, type |-> type, metadata |-> metadata]
InvalidJSON == WireMsg("invalid", Absent, Absent, MetaOf("absent"))
NullJSON == WireMsg("null", Absent, Absent, MetaOf("absent"))

(***************************************************************************)
(* Go values: the zero values of the structs of package incus.             *)
(***************************************************************************)
EventTypeConfig == "config"
EventTypeDevice == "device"

Valid(et) == IF et # EventTypeConfig /\ et # EventTypeDevice THEN FALSE ELSE TRUE

ConfigUpdateMetadata == [Key |-> "", OldValue |-> "", Value |-> ""]
DeviceConfig == [Type |-> "", Path |-> ""]
DeviceUpdateMetadata == [Name |-> "", Action |-> "", Config |-> DeviceConfig]
Event ==
  [Timestamp |-> "", Type |-> "",
   Config |-> ConfigUpdateMetadata, Device |-> DeviceUpdateMetadata]

(***************************************************************************)
(* encoding/json as the decoder uses it.  Each operator returns the error  *)
(* flag and the value left in the destination, which keeps its old value   *)
(* where nothing was stored.                                               *)
(***************************************************************************)
\* Faulty variant of UnmarshalString: an absent key is skipped like a null.
UnmarshalStringLenient(raw, cur) ==
  CASE raw.tag = "str" -> [err |-> FALSE, v |-> raw.s]
    [] raw.tag \in {"null", "absent"} -> [err |-> FALSE, v |-> cur]
    [] OTHER -> [err |-> TRUE, v |-> cur]

\* json.Unmarshal(raw, &string): a missing key gives an empty RawMessage,
\* which is "unexpected end of JSON input"; null stores nothing.
UnmarshalString(raw, cur) ==
  CASE raw.tag = "str" -> [err |-> FALSE, v |-> raw.s]
    [] raw.tag = "null" -> [err |-> FALSE, v |-> cur]
    [] OTHER -> [err |-> TRUE, v |-> cur]

\* A string field of a struct: a key missing from the object is skipped.
FieldString(raw, cur) ==
  IF raw.tag = "absent" THEN [err |-> FALSE, v |-> cur] ELSE UnmarshalString(raw, cur)

\* json.Unmarshal(meta, &e.Config)
UnmarshalConfig(meta, cur) ==
  CASE meta.tag = "null" -> [err |-> FALSE, v |-> cur]
    [] meta.tag = "obj" ->
         LET k == FieldString(meta.key, cur.Key)
             o == FieldString(meta.old_value, cur.OldValue)
             v == FieldString(meta.value, cur.Value)
         IN [err |-> k.err \/ o.err \/ v.err,
             v |-> [Key |-> k.v, OldValue |-> o.v, Value |-> v.v]]
    [] OTHER -> [err |-> TRUE, v |-> cur]

\* The nested DeviceConfig field of DeviceUpdateMetadata.
FieldDeviceConfig(raw, cur) ==
  CASE raw.tag \in {"absent", "null"} -> [err |-> FALSE, v |-> cur]
    [] raw.tag = "obj" ->
         LET t == FieldString(raw.type, cur.Type)
             p == FieldString(raw.path, cur.Path)
         IN [err |-> t.err \/ p.err, v |-> [Type |-> t.v, Path |-> p.v]]
    [] OTHER -> [err |-> TRUE, v |-> cur]

\* json.Unmarshal(meta, &e.Device)
UnmarshalDevice(meta, cur) ==
  CASE meta.tag = "null" -> [err |-> FALSE, v |-> cur]
    [] meta.tag = "obj" ->
         LET n == FieldString(meta.name, cur.Name)
             a == FieldString(meta.action, cur.Action)
             c == FieldDeviceConfig(meta.config, cur.Config)
         IN [err |-> n.err \/ a.err \/ c.err,
             v |-> [Name |-> n.v, Action |-> a.v, Config |-> c.v]]
    [] OTHER -> [err |-> TRUE, v |-> cur]

(***************************************************************************)
(* Event.UnmarshalJSON                                                     *)
(***************************************************************************)
\* Faulty variant of MetadataMissing: a known type without metadata is an error.
MetadataRequired(e) == [err |-> TRUE, ev |-> e]

\* `meta, ok := intermediary["metadata"]; if !ok { return nil }`
MetadataMissing(e) == [err |-> FALSE, ev |-> e]

\* Faulty variant of UnknownType: the discriminator is validated, unknown is an error.
UnknownTypeRejected(e) == [err |-> TRUE, ev |-> e]

\* The switch matches no case: `return nil`.
UnknownType(e) == [err |-> FALSE, ev |-> e]

\* The switch on e.Type, after the guaranteed fields were stored.
DelegateByType(e, metadata) ==
  CASE e.Type = "config" ->
         IF metadata.tag = "absent" THEN MetadataMissing(e)
         ELSE LET c == UnmarshalConfig(metadata, e.Config)
              IN [err |-> c.err, ev |-> [e EXCEPT !.Config = c.v]]
    [] e.Type = "device" ->
         IF metadata.tag = "absent" THEN MetadataMissing(e)
         ELSE LET d == UnmarshalDevice(metadata, e.Device)
              IN [err |-> d.err, ev |-> [e EXCEPT !.Device = d.v]]
    [] OTHER -> UnknownType(e)

\* The map[string]json.RawMessage of the message: null decodes to a nil map.
Intermediary(data) == IF data.shape = "null" THEN NullJSON ELSE data

UnmarshalJSON(e, data) ==
  IF data.shape = "invalid" THEN [err |-> TRUE, ev |-> e]
  ELSE LET intermediary == Intermediary(data)
           ts == UnmarshalString(intermediary.timestamp, e.Timestamp)
           e1 == [e EXCEPT !.Timestamp = ts.v]
           ty == UnmarshalString(intermediary.type, e1.Type)
           e2 == [e1 EXCEPT !.Type = ty.v]
       IN IF ts.err THEN [err |-> TRUE, ev |-> e1]
          ELSE IF ty.err THEN [err |-> TRUE, ev |-> e2]
          ELSE DelegateByType(e2, intermediary.metadata)

(***************************************************************************)
(* Messages the host may send.  StreamMsgs feeds the read loop; WireMsgs   *)
(* is the wider input set of the decoder alone.                            *)
(***************************************************************************)
CfgMsg ==
  WireMsg("object", Str("t1"), Str("config"),
          ConfigMeta(Str("user.k"), Str("old"), Str("new")))
DevMsg ==
  WireMsg("object", Str("t2"), Str("device"),
          DeviceMeta(Str("eth0"), Str("added"),
                     DevCfgJSON("obj", Str("nic"), Str("/dev/net"))))
BogusMsg ==
  WireMsg("object", Str("t3"), Str("bogus"),
          ConfigMeta(Str("user.k"), Str("old"), Str("new")))
CfgNoMetaMsg == WireMsg("object", Str("t4"), Str("config"), MetaOf("absent"))
NoTypeMsg ==
  WireMsg("object", Str("t5"), Absent, ConfigMeta(Str("user.k"), Absent, Absent))
CfgBadMetaMsg == WireMsg("object", Str("t6"), Str("config"), MetaOf("bad"))

StreamMsgs ==
  {CfgMsg, DevMsg, BogusMsg, CfgNoMetaMsg, NoTypeMsg, CfgBadMetaMsg, InvalidJSON}

Timestamps == {Absent, Null, Bad, Str("t1")}
Types == {Absent, Null, Bad, Str("config"), Str("device"), Str("bogus")}
Metas ==
  {MetaOf("absent"), MetaOf("null"), MetaOf("bad"),
   ConfigMeta(Str("user.k"), Str("old"), Str("new")),
   ConfigMeta(Str("user.k"), Absent, Null),
   ConfigMeta(Bad, Str("old"), Str("new")),
   DeviceMeta(Str("eth0"), Str("added"), DevCfgJSON("obj", Str("nic"), Str("/dev/net"))),
   DeviceMeta(Str("eth0"), Absent, NoDevCfg),
   DeviceMeta(Str("eth0"), Bad, DevCfgJSON("obj", Str("nic"), Str("/dev/net"))),
   DeviceMeta(Str("eth0"), Str("added"), DevCfgJSON("bad", Absent, Absent)),
   DeviceMeta(Str("eth0"), Str("added"), DevCfgJSON("obj", Str("nic"), Bad))}
WireMsgs ==
  {InvalidJSON, NullJSON}
    \cup {WireMsg("object", t, y, m) : t \in Timestamps, y \in Types, m \in Metas}

(***************************************************************************)
(* The endpoint of the subscription.  A string is a sequence of tokens: an *)
(* EventType given by the caller is one token, so are "," and its escaped  *)
(* form "%2C".                                                             *)
(***************************************************************************)
\* Longest list of event types a caller passes.
MaxTypes == 3

EventsPath == "/1.0/1.0/events"

\* The EventType values callers pass: the two constants and strings that
\* are no EventType.
EventTypeInputs == {EventTypeConfig, EventTypeDevice, "invalid", "Config"}

RECURSIVE SeqsUpTo(_, _)
SeqsUpTo(S, n) ==
  IF n = 0 THEN {<<>>}
  ELSE LET shorter == SeqsUpTo(S, n - 1)
       IN shorter \cup {Append(q, x) : q \in {r \in shorter : Len(r) = n - 1}, x \in S}

EventLists == SeqsUpTo(EventTypeInputs, MaxTypes)

\* Faulty variant of ValidEvents: the caller's entries are not filtered.
AllEvents(events) == events

\* `for _, ev := range events { if ev.Valid() { strEvents = append(...) } }`
RECURSIVE ValidEvents(_)
ValidEvents(events) ==
  IF events = <<>> THEN <<>>
  ELSE IF Valid(Head(events))
         THEN <<Head(events)>> \o ValidEvents(Tail(events))
         ELSE ValidEvents(Tail(events))

\* strings.Join(strEvents, ",")
RECURSIVE Join(_)
Join(strs) ==
  IF strs = <<>> THEN <<>>
  ELSE IF Len(strs) = 1 THEN <<strs[1]>>
  ELSE <<strs[1], ",">> \o Join(Tail(strs))

\* url.QueryEscape: a comma is percent-encoded, letters are kept.
QueryEscape(str) == [i \in 1..Len(str) |-> IF str[i] = "," THEN "%2C" ELSE str[i]]

\* val := url.Values{}; val.Add("type", ...); val.Encode()
Encode(value) == <<"type", "=">> \o QueryEscape(value)

\* parsed.RawQuery, left empty unless `len(events) > 0`.
RawQuery(events) ==
  IF Len(events) > 0 THEN Encode(Join(ValidEvents(events))) ELSE <<>>

\* parsed.String(): "?" and the query follow the path if RawQuery is not empty.
BuildEndpoint(events) ==
  LET q == RawQuery(events)
  IN <<"ws://", EventsPath>> \o (IF q # <<>> THEN <<"?">> \o q ELSE <<>>)

NoEndpoint == <<>>

(***************************************************************************)
(* The one-shot calls.  A call is the method, its key argument and what    *)
(* the host does: the status it answers, whether the request or the read   *)
(* of the body fails, and the body.  A key is a sequence of tokens, the    *)
(* prefixes "user." and "cloud-init." being one token each.                *)
(***************************************************************************)
StatusOK == 200
StatusNotFound == 404

InstanceInfoPath == "/1.0/1.0"
ListDevicesPath == "/1.0/1.0/devices"
ConfigPath == "/1.0/1.0/config"
MetadataPath == "/1.0/1.0/meta-data"

Ops == {"Info", "ListConfig", "Devices", "HasConfig", "MustConfig", "Config", "Metadata"}
Keys ==
  {<<>>, <<"foo">>, <<"user">>, <<"user.", "foo">>, <<"cloud-init.", "foo">>,
   <<"foo", "user.">>, <<"user.", "cloud-init.", "foo">>}
Statuses == {StatusOK, StatusNotFound, 204, 500}
Transports == {"ok", "socket", "reader"}
Bodies == {"", "secretvalue", "json"}
Calls == [op : Ops, key : Keys, status : Statuses, transport : Transports, body : Bodies]

NoCall == [op |-> "none", key |-> <<>>, status |-> 0, transport |-> "ok", body |-> ""]

\* What a call returns: the value (val a string, ok a bool), the error
\* ("nil", or which stage failed) with the status it carries, whether the
\* call panicked instead, and the path it requested.
Ret(val, ok, err, code, path) ==
  [done |-> FALSE, val |-> val, ok |-> ok, err |-> err, code |-> code,
   panicked |-> FALSE, path |-> path]
NoRet == Ret("", FALSE, "nil", 0, <<>>)

\* strings.HasPrefix(key, prefix) for a one-token prefix.
HasPrefix(key, prefix) == Len(key) >= 1 /\ key[1] = prefix

\* url.JoinPath("http://", ConfigPath, formattedKey) for a key without "/".
JoinPath(base, key) == <<base, "/">> \o key

\* handlejson: the body is read before the status is looked at.
handlejson(c, path) ==
  CASE c.transport = "socket" -> Ret("", FALSE, "socket", 0, <<path>>)
    [] c.transport = "reader" -> Ret("", FALSE, "reader", 0, <<path>>)
    [] c.status # StatusOK -> Ret("", FALSE, "status", c.status, <<path>>)
    [] c.body # "json" -> Ret("", FALSE, "unmarshal", 0, <<path>>)
    [] OTHER -> Ret("decoded", TRUE, "nil", 0, <<path>>)

Info(c) == handlejson(c, InstanceInfoPath)
ListConfig(c) == handlejson(c, ConfigPath)
Devices(c) == handlejson(c, ListDevicesPath)

\* Faulty variant of HasConfigKey: only the user. prefix is recognised.
HasConfigKeyUserOnly(key) ==
  IF ~HasPrefix(key, "user.") THEN <<"user.">> \o key ELSE key

\* formattedKey of HasConfig
HasConfigKey(key) ==
  IF ~HasPrefix(key, "cloud-init.") /\ ~HasPrefix(key, "user.")
    THEN <<"user.">> \o key
    ELSE key

HasConfig(c) ==
  LET path == JoinPath(ConfigPath, HasConfigKey(c.key))
  IN CASE c.transport = "socket" -> Ret("", FALSE, "socket", 0, path)
       [] c.status = StatusNotFound -> Ret("", FALSE, "nil", 0, path)
       [] c.status # StatusOK -> Ret("", FALSE, "status", c.status, path)
       [] OTHER -> Ret("", TRUE, "nil", 0, path)

\* formattedKey of Config
ConfigKey(key) ==
  IF ~HasPrefix(key, "cloud-init.") /\ ~HasPrefix(key, "user.")
    THEN <<"user.">> \o key
    ELSE key

\* Faulty variant of Config: a missing key is reported like any other status.
ConfigNotFoundIsError(c) ==
  LET path == JoinPath(ConfigPath, ConfigKey(c.key))
  IN CASE c.transport = "socket" -> Ret("", FALSE, "socket", 0, path)
       [] c.status # StatusOK -> Ret("", FALSE, "status", c.status, path)
       [] c.transport = "reader" -> Ret("", FALSE, "reader", 0, path)
       [] OTHER -> Ret(c.body, FALSE, "nil", 0, path)

Config(c) ==
  LET path == JoinPath(ConfigPath, ConfigKey(c.key))
  IN CASE c.transport = "socket" -> Ret("", FALSE, "socket", 0, path)
       [] c.status = StatusNotFound -> Ret("", FALSE, "nil", 0, path)
       [] c.status # StatusOK -> Ret("", FALSE, "status", c.status, path)
       [] c.transport = "reader" -> Ret("", FALSE, "reader", 0, path)
       [] OTHER -> Ret(c.body, FALSE, "nil", 0, path)

\* Faulty variant of MustConfig: a blank value is returned, not refused.
MustConfigBlankOK(c) ==
  LET r == Config(c)
  IN IF r.err # "nil" THEN [r EXCEPT !.panicked = TRUE, !.val = ""] ELSE r

\* MustConfig panics on an error and on a blank value.
MustConfig(c) ==
  LET r == Config(c)
  IN IF r.err # "nil" THEN [r EXCEPT !.panicked = TRUE, !.val = ""]
     ELSE IF r.val = "" THEN [r EXCEPT !.panicked = TRUE]
     ELSE r

Metadata(c) ==
  CASE c.transport = "socket" -> Ret("", FALSE, "socket", 0, <<MetadataPath>>)
    [] c.status # StatusOK -> Ret("", FALSE, "status", c.status, <<MetadataPath>>)
    [] c.transport = "reader" -> Ret("", FALSE, "reader", 0, <<MetadataPath>>)
    [] OTHER -> Ret(c.body, FALSE, "nil", 0, <<MetadataPath>>)

(***************************************************************************)
(* State of one ListenForEvents call.                                      *)
(***************************************************************************)
VARIABLES
  pc,         \* where the call is: "dial", "select", "reader", "decode",
              \* "dispatch", or "done" once it has returned
  cancelled,  \* ctx.Done() is closed
  connState,  \* the websocket connection: "none", "open", "closed"
  dials,      \* how many times websocket.Dial was called
  message,    \* the message conn.Reader returned last
  ev,         \* the loop's ev
  reads,      \* the messages conn.Reader returned, in arrival order
  dispatched, \* the goroutines started by `go callback(ev)`, in spawn order:
              \* n is the arrival number of the message, ev its argument
  hstate,     \* per goroutine: "spawned", "running" (callback entered),
              \* "returned"
  result,     \* what the call returned: "none" (not yet), "nil", or the
              \* error "dial", "reader", "decode"
  cause,      \* what made it return: "ctx", "transport", "decode"
  cancelAt,   \* where the call was when ctx was cancelled, and after how
              \* many reads
  readFailed, \* conn.Reader returned an error
  events,     \* the event types the caller passed
  endpoint,   \* the URL given to websocket.Dial
  heap,       \* the Event objects allocated by the loop, by address
  evp,        \* the address the loop's ev points to (0: none yet)
  hptr,       \* per goroutine: the address of the Event it was given
  call,       \* a one-shot call of the client and the host's answer to it
  ret         \* what the one-shot call returned

vars ==
  <<pc, cancelled, connState, dials, message, ev, reads, dispatched, hstate,
    result, cause, cancelAt, readFailed, events, endpoint, heap, evp, hptr,
    call, ret>>

memVars == <<heap, evp, hptr>>

NotCancelled == [pc |-> "never", n |-> 0]

Init ==
  /\ pc = "dial"
  /\ cancelled = FALSE
  /\ connState = "none"
  /\ dials = 0
  /\ message = InvalidJSON
  /\ ev = Event
  /\ reads = <<>>
  /\ dispatched = <<>>
  /\ hstate = <<>>
  /\ result = "none"
  /\ cause = "none"
  /\ cancelAt = NotCancelled
  /\ readFailed = FALSE
  /\ events = <<EventTypeConfig>>
  /\ endpoint = NoEndpoint
  /\ heap = <<>>
  /\ evp = 0
  /\ hptr = <<>>
  /\ call = NoCall
  /\ ret = NoRet

\* The caller cancels ctx, at any moment before or during the call.
Cancel ==
  /\ ~cancelled
  /\ UNCHANGED <<call, ret, events, endpoint, heap, evp, hptr>>
  /\ cancelled' = TRUE
  /\ cancelAt' = [pc |-> pc, n |-> Len(reads)]
  /\ UNCHANGED <<pc, connState, dials, message, ev, reads, dispatched, hstate,
                 result, cause, readFailed>>

\* Faulty variant of Return: the connection is not closed on return.
ReturnLeaking(res, why) ==
  /\ pc' = "done"
  /\ result' = res
  /\ cause' = why
  /\ connState' = connState

\* A return of ListenForEvents; the deferred conn.CloseNow() runs if the
\* connection was opened.
Return(res, why) ==
  /\ pc' = "done"
  /\ result' = res
  /\ cause' = why
  /\ connState' = IF connState = "open" THEN "closed" ELSE connState

\* websocket.Dial(ctx, ...) succeeds.
DialOK ==
  /\ pc = "dial"
  /\ endpoint' = BuildEndpoint(events)
  /\ UNCHANGED <<call, ret, events, heap, evp, hptr>>
  /\ ~cancelled
  /\ dials' = dials + 1
  /\ connState' = "open"
  /\ pc' = "select"
  /\ UNCHANGED <<cancelled, message, ev, reads, dispatched, hstate, result,
                 cause, cancelAt, readFailed>>

\* websocket.Dial(ctx, ...) fails: ctx is already done, or the socket
\* cannot be reached.  `return err`.
DialErr ==
  /\ pc = "dial"
  /\ endpoint' = BuildEndpoint(events)
  /\ UNCHANGED <<call, ret, events, heap, evp, hptr>>
  /\ dials' = dials + 1
  /\ Return("dial", IF cancelled THEN "ctx" ELSE "transport")
  /\ UNCHANGED <<cancelled, message, ev, reads, dispatched, hstate, cancelAt,
                 readFailed>>

\* Faulty variant of Select: the loop does not poll ctx, only the read observes it.
SelectUnpolled ==
  /\ pc = "select"
  /\ UNCHANGED <<call, ret, events, endpoint, heap, evp, hptr>>
  /\ pc' = "reader"
  /\ UNCHANGED <<cancelled, connState, dials, message, ev, reads, dispatched,
                 hstate, result, cause, cancelAt, readFailed>>

\* Faulty variant of Select: a cancellation takes effect only after one more
\* message was read.
SelectAfterNextMessage ==
  /\ pc = "select"
  /\ UNCHANGED <<call, ret, events, endpoint, heap, evp, hptr>>
  /\ IF cancelled /\ cancelAt.n < Len(reads)
       THEN /\ Return("nil", "ctx")
            /\ UNCHANGED <<cancelled, dials, message, ev, reads, dispatched,
                           hstate, cancelAt, readFailed>>
       ELSE /\ pc' = "reader"
            /\ UNCHANGED <<cancelled, connState, dials, message, ev, reads,
                           dispatched, hstate, result, cause, cancelAt,
                           readFailed>>

\* select { case <-ctx.Done(): return nil; default: ... }
Select ==
  /\ pc = "select"
  /\ UNCHANGED <<call, ret, events, endpoint, heap, evp, hptr>>
  /\ IF cancelled
       THEN /\ Return("nil", "ctx")
            /\ UNCHANGED <<cancelled, dials, message, ev, reads, dispatched,
                           hstate, cancelAt, readFailed>>
       ELSE /\ pc' = "reader"
            /\ UNCHANGED <<cancelled, connState, dials, message, ev, reads,
                           dispatched, hstate, result, cause, cancelAt,
                           readFailed>>

\* conn.Reader(ctx) returns the next message of the host.
ReaderOK ==
  /\ pc = "reader"
  /\ UNCHANGED <<call, ret, events, endpoint, heap, evp, hptr>>
  /\ Len(reads) < MaxMsgs
  /\ \E m \in StreamMsgs :
       /\ message' = m
       /\ reads' = Append(reads, m)
  /\ pc' = "decode"
  /\ UNCHANGED <<cancelled, connState, dials, ev, dispatched, hstate, result,
                 cause, cancelAt, readFailed>>

\* Faulty variant of ReaderConnErr: a dropped connection ends the loop cleanly.
ReaderConnErrSwallowed ==
  /\ pc = "reader"
  /\ UNCHANGED <<call, ret, events, endpoint, heap, evp, hptr>>
  /\ readFailed' = TRUE
  /\ Return("nil", "transport")
  /\ UNCHANGED <<cancelled, dials, message, ev, reads, dispatched, hstate,
                 cancelAt>>

\* conn.Reader(ctx) fails because the host closed the connection or the
\* transport broke: `return fmt.Errorf("error in reader: %w", err)`.
ReaderConnErr ==
  /\ pc = "reader"
  /\ UNCHANGED <<call, ret, events, endpoint, heap, evp, hptr>>
  /\ readFailed' = TRUE
  /\ Return("reader", "transport")
  /\ UNCHANGED <<cancelled, dials, message, ev, reads, dispatched, hstate,
                 cancelAt>>

\* conn.Reader(ctx) fails because ctx is done (cancelled before the call or
\* while it blocks): the same `return fmt.Errorf("error in reader: ...")`.
ReaderCtxErr ==
  /\ pc = "reader"
  /\ UNCHANGED <<call, ret, events, endpoint, heap, evp, hptr>>
  /\ cancelled
  /\ readFailed' = TRUE
  /\ Return("reader", "ctx")
  /\ UNCHANGED <<cancelled, dials, message, ev, reads, dispatched, hstate,
                 cancelAt>>

\* Faulty variant of AllocEvent: one Event is allocated before the loop and
\* every iteration decodes into it.
AllocOnce == IF evp = 0 THEN 1 ELSE evp

\* `&incus.Event{}`: the address of a newly allocated Event.
AllocEvent == Len(heap) + 1

\* The heap after Event e was written at address a.
Store(h, a, e) == IF a > Len(h) THEN Append(h, e) ELSE [h EXCEPT ![a] = e]

\* Faulty variant of NewEvent: one Event allocated before the loop and reused.
ReusedEvent == ev

\* `ev := &incus.Event{}`: a fresh zero Event for every message.
NewEvent == Event

\* Faulty variant of Decode: a message that fails to decode is skipped.
DecodeSkipping ==
  /\ pc = "decode"
  /\ evp' = AllocEvent
  /\ heap' = Store(heap, AllocEvent, UnmarshalJSON(NewEvent, message).ev)
  /\ UNCHANGED <<call, ret, events, endpoint, hptr>>
  /\ LET r == UnmarshalJSON(NewEvent, message)
     IN /\ ev' = r.ev
        /\ pc' = IF r.err THEN "select" ELSE "dispatch"
  /\ UNCHANGED <<cancelled, connState, dials, message, reads, dispatched,
                 hstate, result, cause, cancelAt, readFailed>>

\* json.NewDecoder(message).Decode(ev), and on an error
\* `return fmt.Errorf("error in json unmarshaller: %w", err)`.
Decode ==
  /\ pc = "decode"
  /\ evp' = AllocEvent
  /\ heap' = Store(heap, AllocEvent, UnmarshalJSON(NewEvent, message).ev)
  /\ UNCHANGED <<call, ret, events, endpoint, hptr>>
  /\ LET r == UnmarshalJSON(NewEvent, message)
     IN /\ ev' = r.ev
        /\ IF r.err
             THEN /\ Return("decode", "decode")
                  /\ UNCHANGED <<cancelled, dials, message, reads, dispatched,
                                 hstate, cancelAt, readFailed>>
             ELSE /\ pc' = "dispatch"
                  /\ UNCHANGED <<cancelled, connState, dials, message, reads,
                                 dispatched, hstate, result, cause, cancelAt,
                                 readFailed>>

\* Faulty variant of Dispatch: `callback(ev)` called in the loop, which goes on
\* only once the callback has returned.
DispatchSync ==
  /\ pc = "dispatch"
  /\ hptr' = IF Len(dispatched) < Len(reads) THEN Append(hptr, evp) ELSE hptr
  /\ UNCHANGED <<call, ret, events, endpoint, heap, evp>>
  /\ IF Len(dispatched) < Len(reads)
       THEN /\ dispatched' = Append(dispatched, [n |-> Len(reads), ev |-> ev])
            /\ hstate' = Append(hstate, "running")
            /\ pc' = pc
       ELSE /\ hstate[Len(hstate)] = "returned"
            /\ pc' = "select"
            /\ UNCHANGED <<dispatched, hstate>>
  /\ UNCHANGED <<cancelled, connState, dials, message, ev, reads, result,
                 cause, cancelAt, readFailed>>

\* Faulty variant of Dispatch: the newest goroutine is put ahead of the older ones.
DispatchNewestFirst ==
  /\ pc = "dispatch"
  /\ hptr' = <<evp>> \o hptr
  /\ UNCHANGED <<call, ret, events, endpoint, heap, evp>>
  /\ dispatched' = <<[n |-> Len(reads), ev |-> ev]>> \o dispatched
  /\ hstate' = <<"spawned">> \o hstate
  /\ pc' = "select"
  /\ UNCHANGED <<cancelled, connState, dials, message, ev, reads, result,
                 cause, cancelAt, readFailed>>

\* Faulty variant of Dispatch: two goroutines are started for one message.
DispatchTwice ==
  /\ pc = "dispatch"
  /\ hptr' = hptr \o <<evp, evp>>
  /\ UNCHANGED <<call, ret, events, endpoint, heap, evp>>
  /\ dispatched' = dispatched \o <<[n |-> Len(reads), ev |-> ev],
                                   [n |-> Len(reads), ev |-> ev]>>
  /\ hstate' = hstate \o <<"spawned", "spawned">>
  /\ pc' = "select"
  /\ UNCHANGED <<cancelled, connState, dials, message, ev, reads, result,
                 cause, cancelAt, readFailed>>

\* `go callback(ev)`: the goroutine is created, the loop goes on at once.
Dispatch ==
  /\ pc = "dispatch"
  /\ hptr' = Append(hptr, evp)
  /\ UNCHANGED <<call, ret, events, endpoint, heap, evp>>
  /\ dispatched' = Append(dispatched, [n |-> Len(reads), ev |-> ev])
  /\ hstate' = Append(hstate, "spawned")
  /\ pc' = "select"
  /\ UNCHANGED <<cancelled, connState, dials, message, ev, reads, result,
                 cause, cancelAt, readFailed>>

\* The scheduler starts goroutine i: callback(ev) begins executing.
HandlerStart(i) ==
  /\ hstate[i] = "spawned"
  /\ UNCHANGED <<call, ret, events, endpoint, heap, evp, hptr>>
  /\ hstate' = [hstate EXCEPT ![i] = "running"]
  /\ UNCHANGED <<pc, cancelled, connState, dials, message, ev, reads,
                 dispatched, result, cause, cancelAt, readFailed>>

\* callback(ev) of goroutine i returns; a callback may also never return.
HandlerReturn(i) ==
  /\ hstate[i] = "running"
  /\ UNCHANGED <<call, ret, events, endpoint, heap, evp, hptr>>
  /\ hstate' = [hstate EXCEPT ![i] = "returned"]
  /\ UNCHANGED <<pc, cancelled, connState, dials, message, ev, reads,
                 dispatched, result, cause, cancelAt, readFailed>>

Handlers == \E i \in 1..Len(hstate) : HandlerStart(i) \/ HandlerReturn(i)

\* The steps of the goroutine that runs ListenForEvents and does not wait
\* for the host.
LoopStep == Select \/ Decode \/ Dispatch

Next ==
  \/ Cancel
  \/ DialOK
  \/ DialErr
  \/ Select
  \/ ReaderOK
  \/ ReaderConnErr
  \/ ReaderCtxErr
  \/ Decode
  \/ Dispatch
  \/ Handlers

Spec == Init /\ [][Next]_vars

\* The Go scheduler runs the loop's goroutine whenever it can take a step;
\* nothing is assumed of the host, the caller or the callbacks.
LiveSpec == Spec /\ WF_vars(LoopStep)

(***************************************************************************)
(* The decoder alone: one message of WireMsgs has been read and is         *)
(* decoded by the loop's Decode step.                                      *)
(***************************************************************************)
DecodeInit ==
  /\ message \in WireMsgs
  /\ reads = <<message>>
  /\ pc = "decode"
  /\ cancelled = FALSE
  /\ connState = "open"
  /\ dials = 1
  /\ ev = Event
  /\ dispatched = <<>>
  /\ hstate = <<>>
  /\ result = "none"
  /\ cause = "none"
  /\ cancelAt = NotCancelled
  /\ readFailed = FALSE
  /\ events = <<EventTypeConfig>>
  /\ endpoint = BuildEndpoint(events)
  /\ heap = <<>>
  /\ evp = 0
  /\ hptr = <<>>
  /\ call = NoCall
  /\ ret = NoRet

DecodeNext == Decode

DecodeSpec == DecodeInit /\ [][DecodeNext]_vars

(***************************************************************************)
(* The endpoint alone: ListenForEvents is called with any list of          *)
(* EventLists and builds its endpoint up to the return of websocket.Dial.  *)
(***************************************************************************)
QueryInit ==
  /\ events \in EventLists
  /\ pc = "dial"
  /\ cancelled = FALSE
  /\ connState = "none"
  /\ dials = 0
  /\ message = InvalidJSON
  /\ ev = Event
  /\ reads = <<>>
  /\ dispatched = <<>>
  /\ hstate = <<>>
  /\ result = "none"
  /\ cause = "none"
  /\ cancelAt = NotCancelled
  /\ readFailed = FALSE
  /\ endpoint = NoEndpoint
  /\ heap = <<>>
  /\ evp = 0
  /\ hptr = <<>>
  /\ call = NoCall
  /\ ret = NoRet

QueryNext == DialOK \/ DialErr

QuerySpec == QueryInit /\ [][QueryNext]_vars

(***************************************************************************)
(* The one-shot calls alone: one call of Calls is made before any          *)
(* subscription.                                                           *)
(***************************************************************************)
CallInit ==
  /\ call \in Calls
  /\ ret = NoRet
  /\ events = <<EventTypeConfig>>
  /\ pc = "dial"
  /\ cancelled = FALSE
  /\ connState = "none"
  /\ dials = 0
  /\ message = InvalidJSON
  /\ ev = Event
  /\ reads = <<>>
  /\ dispatched = <<>>
  /\ hstate = <<>>
  /\ result = "none"
  /\ cause = "none"
  /\ cancelAt = NotCancelled
  /\ readFailed = FALSE
  /\ endpoint = NoEndpoint
  /\ heap = <<>>
  /\ evp = 0
  /\ hptr = <<>>

\* The call of method op returns r.
Returns(op, r) ==
  /\ call.op = op
  /\ ~ret.done
  /\ ret' = [r EXCEPT !.done = TRUE]
  /\ UNCHANGED <<pc, cancelled, connState, dials, message, ev, reads,
                 dispatched, hstate, result, cause, cancelAt, readFailed,
                 events, endpoint, heap, evp, hptr, call>>

CallInfo == Returns("Info", Info(call))
CallListConfig == Returns("ListConfig", ListConfig(call))
CallDevices == Returns("Devices", Devices(call))
CallHasConfig == Returns("HasConfig", HasConfig(call))
CallMustConfig == Returns("MustConfig", MustConfig(call))
CallConfig == Returns("Config", Config(call))
CallMetadata == Returns("Metadata", Metadata(call))

CallNext ==
  \/ CallInfo
  \/ CallListConfig
  \/ CallDevices
  \/ CallHasConfig
  \/ CallMustConfig
  \/ CallConfig
  \/ CallMetadata

CallSpec == CallInit /\ [][CallNext]_vars

(***************************************************************************)
(* Properties                                                              *)
(***************************************************************************)
\* What decoding message m into a fresh Event gives.
Decoded(m) == UnmarshalJSON(Event, m)

\* The first n goroutines carry the decodings of the first n messages, in
\* arrival order.
DispatchedFirst(n) ==
  /\ Len(dispatched) = n
  /\ Len(reads) >= n
  /\ \A i \in 1..n : dispatched[i] = [n |-> i, ev |-> Decoded(reads[i]).ev]

\* The value a string key of a JSON object gives its Go field.
Given(f) == IF f.tag = "str" THEN f.s ELSE ""

\* C1: whenever ListenForEvents returns because ctx was cancelled (seen by
\* Dial, by the loop's select or by a pending conn.Reader), it returns nil.
C1_CancelNeverError == (pc = "done" /\ cause = "ctx") => result = "nil"

\* C1: the call has returned because of a cancellation that arrived while
\* conn.Reader was pending.
C1_CancelledMidRead == pc = "done" /\ cause = "ctx" /\ cancelAt.pc = "reader"

\* C2: if N valid messages were read and ctx is cancelled after message N
\* arrived and before read N+1 starts, the call returns nil and exactly N
\* goroutines were started, for messages 1..N in arrival order.
C2_CancelBetweenReads ==
  ( /\ pc = "done"
    /\ cancelAt.pc \in {"decode", "dispatch", "select"}
    /\ \A i \in 1..cancelAt.n : ~Decoded(reads[i]).err )
  => /\ result = "nil"
     /\ Len(reads) = cancelAt.n
     /\ DispatchedFirst(cancelAt.n)

\* C2: the call returned nil after a cancellation raised at the select that
\* follows two dispatched messages.
C2_Witness ==
  /\ pc = "done"
  /\ cancelAt = [pc |-> "select", n |-> 2]
  /\ result = "nil"
  /\ Len(dispatched) = 2

\* C3: if k messages were read and decoded and read k+1 fails, the call
\* returns the reader error and exactly k goroutines were started.
C3_ReadFailure ==
  (pc = "done" /\ readFailed)
  => /\ result = "reader"
     /\ DispatchedFirst(Len(reads))

\* C3: the third read failed on a dropped connection after two dispatches.
C3_Witness ==
  /\ pc = "done"
  /\ readFailed
  /\ cause = "transport"
  /\ result = "reader"
  /\ Len(dispatched) = 2

\* C4 as stated: for messages i < j the callback for i begins executing
\* before the callback for j begins.
C4_StartOrder ==
  \A i, j \in 1..Len(hstate) :
    (i < j /\ hstate[j] # "spawned") => hstate[i] # "spawned"

\* C4 amended: the goroutines are created in arrival order, the i-th
\* `go callback(ev)` carrying the decoding of the i-th message; when each
\* callback begins executing is left to the scheduler.
C4_SpawnOrder ==
  /\ Len(hstate) = Len(dispatched)
  /\ Len(dispatched) <= Len(reads)
  /\ \A i \in 1..Len(dispatched) :
       dispatched[i] = [n |-> i, ev |-> Decoded(reads[i]).ev]

\* C4: the callback of message 2 is executing, that of message 1 has not begun.
C4_Witness ==
  /\ Len(dispatched) = 2
  /\ hstate[1] = "spawned"
  /\ hstate[2] = "running"

\* C5: the loop's progress never waits for a callback: after a dispatch it
\* reaches the next select, from the select it starts the next read or
\* returns, a read message gets decoded, and an observed cancellation makes
\* it return, even when no callback ever returns.
C5_NoBackpressure ==
  /\ (pc = "dispatch") ~> (pc = "select")
  /\ (pc = "select") ~> (pc \in {"reader", "done"})
  /\ (pc = "decode") ~> (pc \in {"dispatch", "done"})
  /\ (pc = "select" /\ cancelled) ~> (pc = "done")

\* C5: the call returned on cancellation while the first callback is still
\* executing and the second has not begun.
C5_Witness ==
  /\ pc = "done"
  /\ result = "nil"
  /\ Len(dispatched) = 2
  /\ hstate[1] = "running"
  /\ hstate[2] = "spawned"

\* C6: a message that fails to decode is the last one read, has no
\* goroutine, and makes the call return the decode error; a failed read
\* makes it return the reader error; the connection is closed and is
\* dialled once only.
C6_ErrorsAreFatal ==
  /\ \A i \in 1..Len(reads) :
       Decoded(reads[i]).err =>
         /\ i = Len(reads)
         /\ Len(dispatched) = i - 1
         /\ pc \in {"decode", "done"}
         /\ pc = "done" => (result = "decode" /\ connState = "closed")
  /\ readFailed =>
       (pc = "done" /\ result = "reader" /\ connState = "closed"
          /\ Len(dispatched) = Len(reads))
  /\ result # "none" => pc = "done"
  /\ dials <= 1

\* C6: the second message failed to decode after the first was dispatched.
C6_Witness ==
  /\ pc = "done"
  /\ result = "decode"
  /\ Len(reads) = 2
  /\ Len(dispatched) = 1
  /\ hstate[1] = "returned"

UnknownTyped(m) ==
  /\ m.shape = "object"
  /\ m.timestamp.tag \in {"str", "null"}
  /\ m.type.tag = "str"
  /\ ~Valid(m.type.s)

C8_MandatoryFields ==
  ( /\ pc # "decode"
    /\ \/ message.shape = "null"
       \/ /\ message.shape = "object"
          /\ message.timestamp.tag = "absent" \/ message.type.tag = "absent" )
  => (pc = "done" /\ result = "decode")

\* C8: a message with a timestamp and metadata but no type key was rejected.
C8_Witness ==
  /\ pc = "done"
  /\ result = "decode"
  /\ message.timestamp.tag = "str"
  /\ message.type.tag = "absent"
  /\ message.metadata.tag = "obj"

\* Metadata every declared key of which is a string, null or missing.
WellFormedConfig(meta) ==
  /\ meta.tag = "obj"
  /\ \A f \in {meta.key, meta.old_value, meta.value} : f.tag # "bad"

WellFormedDevice(meta) ==
  /\ meta.tag = "obj"
  /\ \A f \in {meta.name, meta.action} : f.tag # "bad"
  /\ meta.config.tag # "bad"
  /\ meta.config.tag = "obj" =>
       \A f \in {meta.config.type, meta.config.path} : f.tag # "bad"

\* C9: every Event given to a callback whose message has type config and
\* well-formed metadata carries exactly the given key, old_value and value
\* and an empty Device; for type device it carries exactly the given name,
\* action and nested config, and an empty Config.
C9_TaggedUnion ==
  \A i \in 1..Len(dispatched) :
    LET m == reads[dispatched[i].n]
        e == dispatched[i].ev
    IN /\ (m.type = Str("config") /\ WellFormedConfig(m.metadata)) =>
            /\ e.Type = "config"
            /\ e.Config = [Key |-> Given(m.metadata.key),
                           OldValue |-> Given(m.metadata.old_value),
                           Value |-> Given(m.metadata.value)]
            /\ e.Device = DeviceUpdateMetadata
       /\ (m.type = Str("device") /\ WellFormedDevice(m.metadata)) =>
            /\ e.Type = "device"
            /\ e.Device = [Name |-> Given(m.metadata.name),
                           Action |-> Given(m.metadata.action),
                           Config |-> [Type |-> Given(m.metadata.config.type),
                                       Path |-> Given(m.metadata.config.path)]]
            /\ e.Config = ConfigUpdateMetadata

\* C9: a device event then a config event were dispatched in one subscription.
C9_Witness ==
  /\ Len(dispatched) = 2
  /\ dispatched[1].ev.Type = "device"
  /\ dispatched[1].ev.Device.Config.Path = "/dev/net"
  /\ dispatched[2].ev.Type = "config"
  /\ dispatched[2].ev.Config.Value = "new"
  /\ hstate[2] = "running"

\* Metadata that json.Unmarshal cannot store in the payload struct of
\* type t: no object, or a declared key of the wrong JSON kind.
Malformed(t, meta) ==
  \/ meta.tag = "bad"
  \/ /\ meta.tag = "obj"
     /\ IF t = "config" THEN ~WellFormedConfig(meta) ELSE ~WellFormedDevice(meta)

\* C10: a message of a known type without a metadata key decodes to an
\* Event with that type, the given timestamp and both payloads empty; with
\* malformed metadata it fails to decode.
C10_MetadataOptional ==
  ( /\ pc # "decode"
    /\ message.shape = "object"
    /\ message.timestamp.tag = "str"
    /\ message.type.tag = "str"
    /\ Valid(message.type.s) )
  => /\ message.metadata.tag = "absent" =>
          /\ pc = "dispatch"
          /\ ev = [Timestamp |-> message.timestamp.s,
                   Type |-> message.type.s,
                   Config |-> ConfigUpdateMetadata,
                   Device |-> DeviceUpdateMetadata]
     /\ Malformed(message.type.s, message.metadata) =>
          (pc = "done" /\ result = "decode")

\* C10: a device message without metadata was decoded.
C10_Witness ==
  /\ pc = "dispatch"
  /\ message.metadata.tag = "absent"
  /\ ev.Type = "device"
  /\ ev.Timestamp = "t1"

\* The entries of the caller's list that are config or device, in its order.
ValidOnly(list) == SelectSeq(list, LAMBDA t : t \in {"config", "device"})

\* The value of the `type` parameter as the host parses it from the URL:
\* what follows "?type=", unescaped; empty if the URL has no query.
QueryValue(url) ==
  IF \E i \in 1..Len(url) : url[i] = "?"
    THEN LET i == CHOOSE k \in 1..Len(url) : url[k] = "?"
             raw == SubSeq(url, i + 3, Len(url))
         IN [k \in 1..Len(raw) |-> IF raw[k] = "%2C" THEN "," ELSE raw[k]]
    ELSE <<>>

HasQuery(url) == \E i \in 1..Len(url) : url[i] = "?"

\* C11: the endpoint carries a query exactly if some requested type is
\* valid; an empty list and a list of invalid entries only give no query.
C11_QueryIffFiltered ==
  pc # "dial" => (HasQuery(endpoint) <=> ValidOnly(events) # <<>>)

\* C11: Dial was called for a non-empty list without a valid entry.
C11_AllInvalid ==
  /\ pc = "select"
  /\ events = <<"invalid">>
  /\ endpoint = <<"ws://", EventsPath, "?", "type", "=">>

\* C12: for every list the value of the `type` parameter is the valid
\* entries in caller order joined by commas, and the only error the call
\* can return at this point is Dial's own.
C12_QueryValue ==
  pc # "dial" =>
    /\ QueryValue(endpoint) = Join(ValidOnly(events))
    /\ Len(events) > 0 => SubSeq(endpoint, 1, 5) = <<"ws://", EventsPath, "?", "type", "=">>
    /\ pc = "done" => (result = "dial" /\ cause = "transport")

\* C12: Dial was called with the query of config and device, the invalid
\* entry between them dropped.
C12_Witness ==
  /\ pc = "select"
  /\ events = <<"config", "invalid", "device">>
  /\ endpoint = <<"ws://", EventsPath, "?", "type", "=", "config", "%2C", "device">>

\* C13: when the host answers, Config and HasConfig give the value / true
\* on 200, the empty string / false without error on 404, and the status
\* error carrying the status otherwise; Info, ListConfig, Devices and
\* Metadata give an error on every status other than 200, 404 included.
C13_StatusDecides ==
  ret.done =>
    /\ (call.op \in {"Config", "HasConfig"} /\ call.transport = "ok") =>
         CASE call.status = 200 ->
                /\ ret.err = "nil"
                /\ call.op = "Config" => ret.val = call.body
                /\ call.op = "HasConfig" => ret.ok
           [] call.status = 404 ->
                ret.err = "nil" /\ ret.val = "" /\ ~ret.ok
           [] OTHER ->
                ret.err = "status" /\ ret.code = call.status
    /\ (call.op \in {"Info", "ListConfig", "Devices", "Metadata"}
          /\ call.status # 200) =>
         /\ ret.err # "nil"
         /\ call.transport = "ok" => (ret.err = "status" /\ ret.code = call.status)

\* C13: Config was answered 404 and returned the empty string without error.
C13_Witness ==
  /\ ret.done
  /\ call.op = "Config"
  /\ call.status = 404
  /\ call.transport = "ok"
  /\ call.body = "secretvalue"
  /\ ret.val = ""
  /\ ret.err = "nil"

\* The key the rule of the claim asks for.
Prefixed(key) ==
  IF Len(key) >= 1 /\ key[1] \in {"user.", "cloud-init."} THEN key
  ELSE <<"user.">> \o key

\* C14: Config, HasConfig (and MustConfig through Config) request the key
\* unmodified if it starts with user. or cloud-init. and user.<key>
\* otherwise; both apply the same rule, and the rule applied to the key
\* they request changes nothing.
C14_PrefixRule ==
  (ret.done /\ call.op \in {"Config", "HasConfig", "MustConfig"}) =>
    LET requested == SubSeq(ret.path, 3, Len(ret.path))
    IN /\ ret.path = <<ConfigPath, "/">> \o Prefixed(call.key)
       /\ HasConfigKey(call.key) = ConfigKey(call.key)
       /\ ConfigKey(requested) = requested
       /\ HasConfigKey(requested) = requested

\* C14: HasConfig("foo") requested user.foo.
C14_Witness ==
  /\ ret.done
  /\ call.op = "HasConfig"
  /\ call.key = <<"foo">>
  /\ ret.path = <<ConfigPath, "/", "user.", "foo">>

\* C19: MustConfig panics exactly if Config returns an error or an empty
\* value, and returns Config's value otherwise; a key the host answers 404
\* for makes it panic.
C19_MustConfigPanics ==
  (ret.done /\ call.op = "MustConfig") =>
    LET r == Config(call)
    IN /\ ret.panicked <=> (r.err # "nil" \/ r.val = "")
       /\ ~ret.panicked => (ret.val = r.val /\ ret.val # "")
       /\ (call.status = 404 /\ call.transport = "ok") => ret.panicked

\* C19: MustConfig panicked on a key the host reported absent.
C19_Witness ==
  /\ ret.done
  /\ call.op = "MustConfig"
  /\ call.status = 404
  /\ call.transport = "ok"
  /\ ret.panicked
  /\ ret.err = "nil"

\* C15: a read starts only from a select that found ctx not cancelled, and
\* a select that finds ctx cancelled returns nil at once: no further
\* message is read and no further goroutine is started.
C15_CancelPolledAtTop ==
  [][ /\ (pc' = "reader" /\ pc # "reader") => (pc = "select" /\ ~cancelled)
      /\ (pc = "select" /\ cancelled) =>
           /\ pc' \in {"select", "done"}
           /\ reads' = reads
           /\ dispatched' = dispatched
           /\ pc' = "done" => result' = "nil" ]_vars

\* C15: the call returned nil for a cancellation raised while the first
\* message was being dispatched; nothing more was read.
C15_Witness ==
  /\ pc = "done"
  /\ result = "nil"
  /\ cancelAt = [pc |-> "dispatch", n |-> 1]
  /\ Len(reads) = 1
  /\ Len(dispatched) = 1

\* C16: the connection is open exactly while the loop runs; once the call
\* has returned after a successful Dial it is closed, on every return
\* path, and conn.Reader is only ever pending on an open connection.
C16_ConnectionReleased ==
  /\ (pc = "done" /\ result # "dial") => connState = "closed"
  /\ pc \in {"select", "reader", "decode", "dispatch"} => connState = "open"
  /\ connState = "closed" => pc = "done"
  /\ (pc = "dial" \/ result = "dial") => connState = "none"

\* C16: the call returned the reader error of a cancelled read and the
\* connection is closed.
C16_Witness ==
  /\ pc = "done"
  /\ result = "reader"
  /\ cause = "ctx"
  /\ connState = "closed"
  /\ Len(reads) = 1

\* C17: the Event a goroutine was given always holds the decoding of its
\* own message, whatever the loop has decoded since.
C17_EventNotShared ==
  /\ Len(hptr) = Len(dispatched)
  /\ \A i \in 1..Len(hptr) :
       /\ hptr[i] \in 1..Len(heap)
       /\ heap[hptr[i]] = Decoded(reads[i]).ev
       /\ \A j \in 1..Len(hptr) : i # j => hptr[i] # hptr[j]

\* C17: the callback of a device message is executing while the loop has
\* already decoded the config message that followed it.
C17_Witness ==
  /\ Len(reads) = 2
  /\ reads[1] = DevMsg
  /\ reads[2] = CfgMsg
  /\ pc = "dispatch"
  /\ Len(hptr) = 1
  /\ hstate[1] = "running"
  /\ heap[hptr[1]].Type = "device"
  /\ heap[evp].Type = "config"

\* The messages read so far that decode without error.
DecodedOK == {i \in 1..Len(reads) : ~Decoded(reads[i]).err}

\* C18: there are never more goroutines than decoded messages, no message
\* has two, every decoded message the loop has gone past has exactly one,
\* and a failed Dial returns its error with nothing read or dispatched.
C18_AtMostOnce ==
  /\ Len(dispatched) <= Cardinality(DecodedOK)
  /\ \A i \in 1..Len(reads) :
       LET mine == {j \in 1..Len(dispatched) : dispatched[j].n = i}
       IN /\ Cardinality(mine) <= 1
          /\ (i \in DecodedOK /\ (i < Len(reads) \/ pc \notin {"decode", "dispatch"}))
               => Cardinality(mine) = 1
  /\ result = "dial" => (pc = "done" /\ reads = <<>> /\ dispatched = <<>>)

\* C18: Dial failed on the socket and the call returned with nothing read.
C18_Witness ==
  /\ pc = "done"
  /\ result = "dial"
  /\ cause = "transport"
  /\ dials = 1
  /\ reads = <<>>
  /\ dispatched = <<>>

====
